---- MODULE Spec2Model ----
(***************************************************************************)
(* Model of app/main.py: one run of the script against a Kafka broker.     *)
(* The script publishes b'Hello, Kafka!' to test_topic, sleeps, and then   *)
(* prints every record a fresh consumer on test_topic yields until the     *)
(* consumer's idle timeout expires.  The broker and the kafka-python       *)
(* client are the environment: every library call either succeeds or has   *)
(* one of the failure outcomes the client can produce.                     *)
(***************************************************************************)
EXTENDS Integers, Sequences, FiniteSets, TLC

VARIABLES
    pc,          \* position of the main thread in the script
    producer,    \* Session of produce_messages: "absent" | "open" | "closed"
    consumer,    \* Session of consume_messages: "absent" | "open" | "closed"
    accumulator, \* records handed to producer.send and not yet completed
    delivery,    \* outcome of this run's record: "none"|"pending"|"acked"|"failed"
    log,         \* retained records of test_topic on the broker, oldest first
    priorLog,    \* what test_topic held when the run started
    ownOffset,   \* offset (1-based) the broker gave this run's record, 0 if none
    position,    \* number of records the consumer has already been handed
    message,     \* loop variable of "for message in consumer"
    received,    \* records the consumer's iterator has yielded, in order
    output,      \* lines printed on stdout, in order
    exc,         \* exception in flight or handled: its class name, or "none"
    raisedIn,    \* function an exception escaped from, or "none"
    loopEnd,     \* how the for loop ended: "none" | "timeout" | "error"
    faults,      \* environment failures that have happened so far
    external,    \* records other producers appended during the run
    exitCode,    \* process exit status, -1 while the process runs
    run          \* which consecutive run of the script this is, from 1

vars == <<pc, producer, consumer, accumulator, delivery, log, priorLog,
          ownOffset, position, message, received, output, exc, raisedIn,
          loopEnd, faults, external, exitCode, run>>

----------------------------------------------------------------------------
(* Bounds of the model *)

MaxPrior == 2       \* records test_topic may hold before the run
MaxExternal == 1    \* records other producers may append during the run
MaxRuns == 3        \* consecutive runs of the script

(* Program constants *)

ConsumerTimeoutMs == 5000

\* auto_offset_reset of the consumer
AutoOffsetReset == "earliest"

----------------------------------------------------------------------------
(* Byte strings *)

\* b'Hello, Kafka!'
HelloKafka == <<72, 101, 108, 108, 111, 44, 32, 75, 97, 102, 107, 97, 33>>

\* 'test_topic'
TestTopic == "test_topic"

\* b'caf\xc3\xa9': valid UTF-8 with a two-byte character
CafeBytes == <<99, 97, 102, 195, 169>>

\* b'H\xff': not valid UTF-8
BadBytes == <<72, 255>>

\* Payloads other producers may have written to test_topic
Payloads == {HelloKafka, CafeBytes, BadBytes}

IsCont(b) == b >= 128 /\ b <= 191

\* bytes.decode('utf-8') with the default errors='strict': the code points
\* of b, or ok = FALSE where Python raises UnicodeDecodeError.
RECURSIVE Utf8From(_, _, _)
Utf8From(b, i, acc) ==
    IF i > Len(b) THEN [ok |-> TRUE, text |-> acc]
    ELSE LET b0 == b[i]
             has(n) == i + n <= Len(b)
         IN  IF b0 < 128
               THEN Utf8From(b, i + 1, Append(acc, b0))
             ELSE IF b0 >= 194 /\ b0 <= 223
               THEN IF has(1) /\ IsCont(b[i + 1])
                      THEN Utf8From(b, i + 2,
                               Append(acc, (b0 - 192) * 64 + (b[i + 1] - 128)))
                      ELSE [ok |-> FALSE, text |-> <<>>]
             ELSE IF b0 >= 224 /\ b0 <= 239
               THEN IF /\ has(2) /\ IsCont(b[i + 1]) /\ IsCont(b[i + 2])
                       /\ (b0 = 224 => b[i + 1] >= 160)
                       /\ (b0 = 237 => b[i + 1] <= 159)
                      THEN Utf8From(b, i + 3,
                               Append(acc, (b0 - 224) * 4096
                                           + (b[i + 1] - 128) * 64
                                           + (b[i + 2] - 128)))
                      ELSE [ok |-> FALSE, text |-> <<>>]
             ELSE IF b0 >= 240 /\ b0 <= 244
               THEN IF /\ has(3) /\ IsCont(b[i + 1]) /\ IsCont(b[i + 2])
                       /\ IsCont(b[i + 3])
                       /\ (b0 = 240 => b[i + 1] >= 144)
                       /\ (b0 = 244 => b[i + 1] <= 143)
                      THEN Utf8From(b, i + 4,
                               Append(acc, (b0 - 240) * 262144
                                           + (b[i + 1] - 128) * 4096
                                           + (b[i + 2] - 128) * 64
                                           + (b[i + 3] - 128)))
                      ELSE [ok |-> FALSE, text |-> <<>>]
             ELSE [ok |-> FALSE, text |-> <<>>]

Decode(b) == Utf8From(b, 1, <<>>)

----------------------------------------------------------------------------
(* Exceptions *)

\* kafka.errors classes the client raises; all derive from KafkaError
KafkaErrors == {"NoBrokersAvailable", "KafkaTimeoutError", "KafkaError"}

IsKafkaError(e) == e \in KafkaErrors

\* An exception leaves function fn: neither function has a handler, so
\* control goes to the except clauses of __main__.
Raise(e, fn) ==
    /\ exc' = e
    /\ raisedIn' = fn
    /\ pc' = "handler"

\* print(...) appends one line to stdout
Printed(kind, text) == Append(output, [kind |-> kind, text |-> text])

----------------------------------------------------------------------------
(* Initial state: the process has started, test_topic holds any records *)

RECURSIVE SeqsUpTo(_, _)
SeqsUpTo(S, n) ==
    IF n = 0 THEN {<<>>}
    ELSE LET shorter == SeqsUpTo(S, n - 1)
         IN  shorter \cup {Append(s, x) : s \in shorter, x \in S}

Init ==
    /\ pc = "p_ctor"
    /\ producer = "absent"
    /\ consumer = "absent"
    /\ accumulator = <<>>
    /\ delivery = "none"
    /\ log \in SeqsUpTo(Payloads, MaxPrior)
    /\ priorLog = log
    /\ ownOffset = 0
    /\ position = 0
    /\ message = [offset |-> 0, value |-> <<>>]
    /\ received = <<>>
    /\ output = <<>>
    /\ exc = "none"
    /\ raisedIn = "none"
    /\ loopEnd = "none"
    /\ faults = {}
    /\ external = 0
    /\ exitCode = -1
    /\ run = 1

----------------------------------------------------------------------------
(* produce_messages *)

\* producer = KafkaProducer(bootstrap_servers='localhost:9092')
ProducerCtor ==
    /\ pc = "p_ctor"
    /\ \/ /\ producer' = "open"
          /\ pc' = "p_send"
          /\ UNCHANGED <<exc, raisedIn, faults>>
       \/ /\ faults' = faults \cup {"NoBrokers"}
          /\ Raise("NoBrokersAvailable", "produce_messages")
          /\ UNCHANGED producer
    /\ UNCHANGED <<consumer, accumulator, delivery, log, priorLog, ownOffset,
                   position, message, received, output, loopEnd, external,
                   exitCode, run>>

\* Variant of ProducerSend: the record is submitted twice
ProducerSend_Twice ==
    /\ pc = "p_send"
    /\ accumulator' = accumulator \o
                          << [topic |-> TestTopic, value |-> HelloKafka],
                             [topic |-> TestTopic, value |-> HelloKafka] >>
    /\ delivery' = "pending"
    /\ pc' = "p_flush"
    /\ UNCHANGED <<producer, consumer, log, priorLog, ownOffset, position,
                   message, received, output, exc, raisedIn, loopEnd, faults,
                   external, exitCode, run>>

\* message = b'Hello, Kafka!'; producer.send('test_topic', value=message):
\* the record is queued in the producer's accumulator, nothing is awaited.
ProducerSend ==
    /\ pc = "p_send"
    /\ \/ /\ accumulator' = Append(accumulator,
                                [topic |-> TestTopic, value |-> HelloKafka])
          /\ delivery' = "pending"
          /\ pc' = "p_flush"
          /\ UNCHANGED <<exc, raisedIn, faults>>
       \/ /\ faults' = faults \cup {"NoMetadata"}
          /\ Raise("KafkaTimeoutError", "produce_messages")
          /\ UNCHANGED <<accumulator, delivery>>
    /\ UNCHANGED <<producer, consumer, log, priorLog, ownOffset, position,
                   message, received, output, loopEnd, external, exitCode, run>>

\* The producer's sender thread completes the oldest queued record: the
\* broker appends it to the topic and acknowledges it, or the request
\* fails.  A failed request only fails the future send() returned, which
\* the script dropped.
SenderDeliver ==
    /\ producer = "open"
    /\ accumulator # <<>>
    /\ accumulator' = Tail(accumulator)
    /\ \/ /\ log' = Append(log, Head(accumulator).value)
          /\ ownOffset' = Len(log) + 1
          /\ delivery' = "acked"
          /\ UNCHANGED faults
       \/ /\ delivery' = "failed"
          /\ faults' = faults \cup {"DeliveryFailed"}
          /\ UNCHANGED <<log, ownOffset>>
    /\ UNCHANGED <<pc, producer, consumer, priorLog, position, message,
                   received, output, exc, raisedIn, loopEnd, external,
                   exitCode, run>>

\* Variant of ProducerFlush: returns without waiting for the queued record
ProducerFlush_NoWait ==
    /\ pc = "p_flush"
    /\ pc' = "p_print"
    /\ UNCHANGED <<producer, consumer, accumulator, delivery, log, priorLog,
                   ownOffset, position, message, received, output, exc,
                   raisedIn, loopEnd, faults, external, exitCode, run>>

\* producer.flush(): blocks until every queued record has completed,
\* acknowledged or failed, and returns None either way.
ProducerFlush ==
    /\ pc = "p_flush"
    /\ accumulator = <<>>
    /\ pc' = "p_print"
    /\ UNCHANGED <<producer, consumer, accumulator, delivery, log, priorLog,
                   ownOffset, position, message, received, output, exc,
                   raisedIn, loopEnd, faults, external, exitCode, run>>

\* print("Message sent successfully: " + message.decode('utf-8')), then
\* produce_messages returns
ProducePrint ==
    /\ pc = "p_print"
    /\ IF Decode(HelloKafka).ok
         THEN /\ output' = Printed("sent", Decode(HelloKafka).text)
              /\ pc' = "m_sleep"
              /\ UNCHANGED <<exc, raisedIn>>
         ELSE /\ Raise("UnicodeDecodeError", "produce_messages")
              /\ UNCHANGED output
    /\ UNCHANGED <<producer, consumer, accumulator, delivery, log, priorLog,
                   ownOffset, position, message, received, loopEnd, faults,
                   external, exitCode, run>>

----------------------------------------------------------------------------
(* __main__ between the two calls *)

\* time.sleep(2)
MainSleep ==
    /\ pc = "m_sleep"
    /\ pc' = "c_ctor"
    /\ UNCHANGED <<producer, consumer, accumulator, delivery, log, priorLog,
                   ownOffset, position, message, received, output, exc,
                   raisedIn, loopEnd, faults, external, exitCode, run>>

----------------------------------------------------------------------------
(* consume_messages *)

\* Variant of StartPosition: the consumer starts at the end of the log
\* whatever auto_offset_reset says
StartPosition_Latest(reset, n) == n

\* Where a consumer without group_id, hence without committed offsets,
\* starts reading a log of n records.
StartPosition(reset, n) == IF reset = "earliest" THEN 0 ELSE n

\* consumer = KafkaConsumer('test_topic', bootstrap_servers=...,
\*     auto_offset_reset='earliest', consumer_timeout_ms=5000)
ConsumerCtor ==
    /\ pc = "c_ctor"
    /\ \/ /\ consumer' = "open"
          /\ position' = StartPosition(AutoOffsetReset, Len(log))
          /\ pc' = "c_next"
          /\ UNCHANGED <<exc, raisedIn, faults>>
       \/ /\ faults' = faults \cup {"NoBrokers"}
          /\ Raise("NoBrokersAvailable", "consume_messages")
          /\ UNCHANGED <<consumer, position>>
    /\ UNCHANGED <<producer, accumulator, delivery, log, priorLog, ownOffset,
                   message, received, output, loopEnd, external, exitCode, run>>

\* for message in consumer: the iterator yields the next record of the log
ConsumerNext ==
    /\ pc = "c_next"
    /\ position < Len(log)
    /\ message' = [offset |-> position + 1, value |-> log[position + 1]]
    /\ position' = position + 1
    /\ received' = Append(received, message')
    /\ pc' = "c_body"
    /\ UNCHANGED <<producer, consumer, accumulator, delivery, log, priorLog,
                   ownOffset, output, exc, raisedIn, loopEnd, faults,
                   external, exitCode, run>>

\* for message in consumer: the pull fails with an error the client raises
ConsumerFetchError ==
    /\ pc = "c_next"
    /\ faults' = faults \cup {"FetchError"}
    /\ loopEnd' = "error"
    /\ Raise("KafkaError", "consume_messages")
    /\ UNCHANGED <<producer, consumer, accumulator, delivery, log, priorLog,
                   ownOffset, position, message, received, output, external,
                   exitCode, run>>

\* Variant of IdleTimeout: no idle timeout is in force, the pull blocks
IdleTimeout_Never ==
    /\ pc = "c_next"
    /\ ConsumerTimeoutMs < 0
    /\ UNCHANGED vars

\* Variant of IdleTimeout: the expiry is raised as KafkaTimeoutError
IdleTimeout_Raises ==
    /\ pc = "c_next"
    /\ ConsumerTimeoutMs >= 0
    /\ position = Len(log)
    /\ loopEnd' = "timeout"
    /\ Raise("KafkaTimeoutError", "consume_messages")
    /\ UNCHANGED <<producer, consumer, accumulator, delivery, log, priorLog,
                   ownOffset, position, message, received, output, faults,
                   external, exitCode, run>>

\* for message in consumer: no record arrived within consumer_timeout_ms,
\* the iterator raises StopIteration and the loop ends; consume_messages
\* returns.  No record arrives when the consumer has read the whole log, or
\* when the broker does not answer the fetch in time.
IdleTimeout ==
    /\ pc = "c_next"
    /\ ConsumerTimeoutMs >= 0
    /\ \/ /\ position = Len(log)
          /\ UNCHANGED faults
       \/ /\ position < Len(log)
          /\ faults' = faults \cup {"Stall"}
    /\ loopEnd' = "timeout"
    /\ pc' = "m_end"
    /\ UNCHANGED <<producer, consumer, accumulator, delivery, log, priorLog,
                   ownOffset, position, message, received, output, exc,
                   raisedIn, external, exitCode, run>>

\* Variant of ConsumePrint: a payload that does not decode is skipped and
\* the loop goes on
ConsumePrint_SkipMalformed ==
    /\ pc = "c_body"
    /\ output' = IF Decode(message.value).ok
                   THEN Printed("received", Decode(message.value).text)
                   ELSE output
    /\ pc' = "c_sleep"
    /\ UNCHANGED <<producer, consumer, accumulator, delivery, log, priorLog,
                   ownOffset, position, message, received, exc, raisedIn,
                   loopEnd, faults, external, exitCode, run>>

\* print(f"Received message: {message.value.decode('utf-8')}")
ConsumePrint ==
    /\ pc = "c_body"
    /\ IF Decode(message.value).ok
         THEN /\ output' = Printed("received", Decode(message.value).text)
              /\ pc' = "c_sleep"
              /\ UNCHANGED <<exc, raisedIn, loopEnd>>
         ELSE /\ Raise("UnicodeDecodeError", "consume_messages")
              /\ loopEnd' = "error"
              /\ UNCHANGED output
    /\ UNCHANGED <<producer, consumer, accumulator, delivery, log, priorLog,
                   ownOffset, position, message, received, faults, external,
                   exitCode, run>>

\* time.sleep(1)
ConsumeSleep ==
    /\ pc = "c_sleep"
    /\ pc' = "c_next"
    /\ UNCHANGED <<producer, consumer, accumulator, delivery, log, priorLog,
                   ownOffset, position, message, received, output, exc,
                   raisedIn, loopEnd, faults, external, exitCode, run>>

----------------------------------------------------------------------------
(* __main__: the except clauses and the end of the script *)

\* Variant of HandleKafkaError: a failed publish is reported and the script
\* goes on to the grace delay and the Receiver
HandleKafkaError_Continue ==
    /\ pc = "handler"
    /\ IsKafkaError(exc)
    /\ output' = Printed("error", exc)
    /\ pc' = IF raisedIn = "produce_messages" THEN "m_sleep" ELSE "m_end"
    /\ UNCHANGED <<producer, consumer, accumulator, delivery, log, priorLog,
                   ownOffset, position, message, received, exc, raisedIn,
                   loopEnd, faults, external, exitCode, run>>

\* except KafkaError as e: print(f"An error occurred: {e}")
HandleKafkaError ==
    /\ pc = "handler"
    /\ IsKafkaError(exc)
    /\ output' = Printed("error", exc)
    /\ pc' = "m_end"
    /\ UNCHANGED <<producer, consumer, accumulator, delivery, log, priorLog,
                   ownOffset, position, message, received, exc, raisedIn,
                   loopEnd, faults, external, exitCode, run>>

\* Variant of HandleException: the failure is reported and the for loop is
\* resumed at the next record
HandleException_Resume ==
    /\ pc = "handler"
    /\ ~IsKafkaError(exc)
    /\ output' = Printed("unexpected", exc)
    /\ pc' = IF raisedIn = "consume_messages" THEN "c_next" ELSE "m_end"
    /\ UNCHANGED <<producer, consumer, accumulator, delivery, log, priorLog,
                   ownOffset, position, message, received, exc, raisedIn,
                   loopEnd, faults, external, exitCode, run>>

\* except Exception as e: print(f"An unexpected error occurred: {e}")
HandleException ==
    /\ pc = "handler"
    /\ ~IsKafkaError(exc)
    /\ output' = Printed("unexpected", exc)
    /\ pc' = "m_end"
    /\ UNCHANGED <<producer, consumer, accumulator, delivery, log, priorLog,
                   ownOffset, position, message, received, exc, raisedIn,
                   loopEnd, faults, external, exitCode, run>>

\* The status the interpreter exits with when the script runs off its end
ExitStatus(e) == 0

\* The script ends after the try statement: there is no sys.exit call.
Exit ==
    /\ pc = "m_end"
    /\ exitCode' = ExitStatus(exc)
    /\ pc' = "done"
    /\ UNCHANGED <<producer, consumer, accumulator, delivery, log, priorLog,
                   ownOffset, position, message, received, output, exc,
                   raisedIn, loopEnd, faults, external, run>>

----------------------------------------------------------------------------
(* The broker's other clients *)

\* Another producer appends a record to test_topic while the script runs
ExternalPublish ==
    /\ pc # "done"
    /\ external < MaxExternal
    /\ \E p \in Payloads : log' = Append(log, p)
    /\ external' = external + 1
    /\ UNCHANGED <<pc, producer, consumer, accumulator, delivery, priorLog,
                   ownOffset, position, message, received, output, exc,
                   raisedIn, loopEnd, faults, exitCode, run>>

----------------------------------------------------------------------------
(* Specifications *)

\* Steps of the process itself: the main thread and the sender thread
Program ==
    \/ ProducerCtor
    \/ ProducerSend
    \/ SenderDeliver
    \/ ProducerFlush
    \/ ProducePrint
    \/ MainSleep
    \/ ConsumerCtor
    \/ ConsumerNext
    \/ ConsumerFetchError
    \/ IdleTimeout
    \/ ConsumePrint
    \/ ConsumeSleep
    \/ HandleKafkaError
    \/ HandleException
    \/ Exit

Next == Program \/ ExternalPublish

Spec == Init /\ [][Next]_vars

\* Steps the process takes when no new failure strikes the pending pull
Progress ==
    \/ ProducerCtor
    \/ ProducerSend
    \/ SenderDeliver
    \/ ProducerFlush
    \/ ProducePrint
    \/ MainSleep
    \/ ConsumerCtor
    \/ ConsumerNext
    \/ IdleTimeout
    \/ ConsumePrint
    \/ ConsumeSleep
    \/ HandleKafkaError
    \/ HandleException
    \/ Exit

\* The interpreter keeps running the main thread and the sender thread, and
\* the consumer's idle timer keeps counting: a process step that stays
\* possible is eventually taken.  Nothing obliges the broker to fail, nor
\* other producers to publish.
LiveSpec == Spec /\ WF_vars(Progress)

----------------------------------------------------------------------------
(* Consecutive runs *)

\* The script is started again after it has exited: a new process, whose
\* producer and consumer are new, against the same broker, whose topic
\* keeps every record.
NextRun ==
    /\ pc = "done"
    /\ run < MaxRuns
    /\ run' = run + 1
    /\ pc' = "p_ctor"
    /\ producer' = "absent"
    /\ consumer' = "absent"
    /\ accumulator' = <<>>
    /\ delivery' = "none"
    /\ priorLog' = log
    /\ ownOffset' = 0
    /\ position' = 0
    /\ message' = [offset |-> 0, value |-> <<>>]
    /\ received' = <<>>
    /\ output' = <<>>
    /\ exc' = "none"
    /\ raisedIn' = "none"
    /\ loopEnd' = "none"
    /\ exitCode' = -1
    /\ UNCHANGED <<log, faults, external>>

\* The first run starts on an empty topic
InitEmptyTopic == Init /\ log = <<>>

NextRuns == Next \/ NextRun

\* Consecutive runs of the script on a topic that starts empty
RunsSpec == InitEmptyTopic /\ [][NextRuns]_vars

----------------------------------------------------------------------------
(* Vocabulary of the properties *)

\* Positions of the main thread inside produce_messages
ProducePcs == {"p_ctor", "p_send", "p_flush", "p_print"}

\* Positions of the main thread inside consume_messages
ConsumePcs == {"c_ctor", "c_next", "c_body", "c_sleep"}

\* Positions of the main thread inside the for loop
LoopPcs == {"c_next", "c_body", "c_sleep"}

\* The payloads of the records the Receiver was handed, in order
RECURSIVE ValuesOf(_)
ValuesOf(recs) ==
    IF recs = <<>> THEN <<>>
    ELSE <<Head(recs).value>> \o ValuesOf(Tail(recs))

\* How many elements of s equal v
RECURSIVE Count(_, _)
Count(s, v) ==
    IF s = <<>> THEN 0
    ELSE (IF Head(s) = v THEN 1 ELSE 0) + Count(Tail(s), v)

\* How many lines of the given kind were printed
Lines(kind) == Cardinality({i \in DOMAIN output : output[i].kind = kind})

\* The run met no failure: no library call failed, the record was not
\* rejected, no fetch stalled, and no exception was raised.
NoFailure == faults = {} /\ exc = "none"

\* The run is over
Finished == pc = "done"

----------------------------------------------------------------------------
(* C1 *)

\* C1 as stated: in a finished run without failure the Receiver's sequence
\* contains the payload b'Hello, Kafka!' exactly one time, whatever the
\* topic held before the run.
C1_ExactlyOnceWhateverPrior ==
    (Finished /\ NoFailure) => Count(ValuesOf(received), HelloKafka) = 1

\* C1 amended: in a finished run without failure the record published by
\* this run is handed to the Receiver exactly one time with payload
\* b'Hello, Kafka!'; the Receiver's sequence is the log from the earliest
\* offset, so it holds that payload once more for every copy the topic
\* already held before the run.
C1_OwnRecordOnceAndPriorCopies ==
    (Finished /\ NoFailure) =>
        /\ ownOffset >= 1
        /\ Cardinality({i \in DOMAIN received :
                            received[i].offset = ownOffset}) = 1
        /\ \A i \in DOMAIN received :
               received[i].offset = ownOffset => received[i].value = HelloKafka
        /\ ValuesOf(received) = SubSeq(log, 1, Len(received))
        /\ Count(ValuesOf(received), HelloKafka)
               >= 1 + Count(priorLog, HelloKafka)

\* A finished run without failure on a topic that already held the payload
C1_Witness ==
    /\ Finished
    /\ NoFailure
    /\ Count(priorLog, HelloKafka) = 1
    /\ Count(ValuesOf(received), HelloKafka) = 2

----------------------------------------------------------------------------
(* C2 *)

\* C2: the Receiver exists, or consume_messages is entered, only after the
\* send and the flush have completed (nothing is queued and the record has
\* its outcome), and the only way into consume_messages is the step out of
\* the grace delay, which itself starts only when produce_messages has
\* returned after its flush.
C2_PublishThenDelayThenReceive ==
    /\ [](((consumer # "absent") \/ (pc \in ConsumePcs)) =>
              /\ accumulator = <<>>
              /\ delivery \in {"acked", "failed"}
              /\ Lines("sent") = 1)
    /\ [][(pc' = "c_ctor" /\ pc # "c_ctor") => pc = "m_sleep"]_vars
    /\ [][(pc' = "m_sleep" /\ pc # "m_sleep") =>
              (pc = "p_print" /\ accumulator = <<>>)]_vars
    /\ [][(consumer' # "absent" /\ consumer = "absent") => pc = "c_ctor"]_vars

\* The Receiver is open after an acknowledged publish
C2_Witness == consumer = "open" /\ delivery = "acked" /\ pc = "c_next"

----------------------------------------------------------------------------
(* C3 *)

\* C3: a Receiver inside its loop always leaves it, and when it leaves by
\* idle timeout the loop has ended, consume_messages has returned and the
\* consumer's connection is still open.
C3_ReceiverNeverBlocksForever ==
    /\ (pc \in LoopPcs) ~> (pc \notin LoopPcs)
    /\ [](loopEnd = "timeout" =>
              (pc \in {"m_end", "done"} /\ consumer = "open"))

\* The loop ended by idle timeout after the Receiver had read the whole
\* log, and the run is over with the connection still open
C3_Witness ==
    /\ Finished
    /\ loopEnd = "timeout"
    /\ consumer = "open"
    /\ position = Len(log)
    /\ Len(received) >= 1

----------------------------------------------------------------------------
(* C4 *)

\* C4 as stated: produce_messages has printed "Message sent successfully"
\* or has returned only if the broker acknowledged the record.
C4_SuccessOnlyAfterAck ==
    (Lines("sent") >= 1 \/ pc \in {"m_sleep"} \cup ConsumePcs) =>
        delivery = "acked"

----------------------------------------------------------------------------
(* C5 *)

\* C5 as stated: no exception ever escapes produce_messages.
C5_PublisherNeverRaises == raisedIn # "produce_messages"

----------------------------------------------------------------------------
(* C6 *)

\* C6 as stated: once produce_messages has been left its producer is not
\* open any more, and once consume_messages has been left its consumer is
\* not open any more.
C6_SessionsClosedOnExit ==
    /\ (pc \notin ProducePcs => producer # "open")
    /\ (pc \notin (ProducePcs \cup {"m_sleep"} \cup ConsumePcs) =>
            consumer # "open")

----------------------------------------------------------------------------
(* C7 *)

\* C7 as stated: in a finished run without failure the Receiver's sequence
\* is exactly one message, with payload b'Hello, Kafka!'.
C7_ExactlyOneHello ==
    (Finished /\ NoFailure) => ValuesOf(received) = <<HelloKafka>>

\* C7 amended: in a finished run without failure on a topic that held no
\* record before the run and to which nobody else published, the
\* Receiver's sequence is exactly one message, with payload
\* b'Hello, Kafka!', it is printed, and the sequence ended by idle timeout.
C7_ExactlyOneHelloOnEmptyTopic ==
    (Finished /\ NoFailure /\ priorLog = <<>> /\ external = 0) =>
        /\ ValuesOf(received) = <<HelloKafka>>
        /\ loopEnd = "timeout"
        /\ output = << [kind |-> "sent", text |-> Decode(HelloKafka).text],
                       [kind |-> "received", text |-> Decode(HelloKafka).text] >>

\* A finished run without failure on a topic nobody else wrote to
C7_Witness ==
    /\ Finished
    /\ NoFailure
    /\ priorLog = <<>>
    /\ external = 0
    /\ Len(received) = 1

----------------------------------------------------------------------------
(* C8 *)

\* C8: when the loop ended by idle timeout no exception was raised,
\* consume_messages has returned and no error line is printed; when the
\* loop ended by a failure an exception left consume_messages and, once the
\* handler has run, an error line is printed.
C8_IdleTimeoutIsNotAnError ==
    /\ loopEnd = "timeout" =>
           /\ exc = "none"
           /\ raisedIn = "none"
           /\ pc \in {"m_end", "done"}
           /\ Lines("error") + Lines("unexpected") = 0
    /\ loopEnd = "error" =>
           /\ exc # "none"
           /\ raisedIn = "consume_messages"
           /\ (pc \in {"m_end", "done"} =>
                   Lines("error") + Lines("unexpected") = 1)

\* A finished run whose Receiver timed out without any message
C8_Witness ==
    /\ Finished
    /\ loopEnd = "timeout"
    /\ received = <<>>
    /\ faults = {"DeliveryFailed"}

----------------------------------------------------------------------------
(* C9 *)

\* C9: a record whose payload does not decode is the last one the Receiver
\* is handed; it is not printed; its failure leaves consume_messages as an
\* exception and, once the handler has run, is printed as an error line;
\* every record handed out before it was printed.
C9_MalformedTerminatesSequence ==
    \A i \in DOMAIN received :
        ~Decode(received[i].value).ok =>
            /\ i = Len(received)
            /\ position = received[i].offset
            /\ Lines("received") = i - 1
            /\ pc \in {"c_body", "handler", "m_end", "done"}
            /\ pc # "c_body" =>
                   /\ exc = "UnicodeDecodeError"
                   /\ raisedIn = "consume_messages"
                   /\ loopEnd = "error"
            /\ pc \in {"m_end", "done"} =>
                   output[Len(output)].kind = "unexpected"

\* A finished run that stopped at a malformed record with a record after
\* it left unread
C9_Witness ==
    /\ Finished
    /\ exc = "UnicodeDecodeError"
    /\ position < Len(log)
    /\ Decode(log[position + 1]).ok

----------------------------------------------------------------------------
(* C10 *)

\* C10 as stated: a run in which a publish or receive failure occurred
\* exits with a status other than 0.
C10_NonZeroExitOnFailure ==
    (Finished /\ exc # "none") => exitCode # 0

----------------------------------------------------------------------------
(* C11 *)

\* C11 as stated: every failure of the send, of the acknowledgement awaited
\* by flush and of a receive pull is surfaced as an error outcome (an
\* exception reaching the caller, printed once the handler has run), and a
\* failed delivery is never followed by the success report.
C11_EveryFailureSurfaced ==
    /\ (faults \cap {"NoBrokers", "NoMetadata", "DeliveryFailed",
                     "FetchError"} # {} /\ pc \notin ProducePcs)
           => exc # "none"
    /\ delivery = "failed" => Lines("sent") = 0

----------------------------------------------------------------------------
(* C12 *)

\* The state of the Receiver: Created while KafkaConsumer(...) is being
\* constructed (construction subscribes), Subscribed once it is open and
\* nothing was pulled yet, IdleWait in a pull, Draining while a record
\* handed out is being processed, Closed once its sequence has ended.
ReceiverState ==
    IF loopEnd # "none" \/ raisedIn = "consume_messages" THEN "Closed"
    ELSE IF pc = "c_ctor" THEN "Created"
    ELSE IF consumer = "absent" THEN "None"
    ELSE IF pc = "c_next" THEN (IF received = <<>> THEN "Subscribed"
                                                   ELSE "IdleWait")
    ELSE "Draining"

\* The transitions the Receiver's state machine allows
ReceiverTransitions ==
    { <<"None", "Created">>,
      <<"Created", "Subscribed">>, <<"Created", "Closed">>,
      <<"Subscribed", "Draining">>, <<"Subscribed", "Closed">>,
      <<"IdleWait", "Draining">>, <<"IdleWait", "Closed">>,
      <<"Draining", "IdleWait">>, <<"Draining", "Closed">> }

\* C12: the Receiver only moves along Created -> Subscribed ->
\* {Draining <-> Idle-wait} -> Closed; a message is handed out only by an
\* open, subscribed Receiver in a pull; the Receiver is Closed exactly when
\* its loop ended by idle timeout or an exception left consume_messages;
\* once Closed it stays Closed and hands out nothing more.
C12_ReceiverStateMachine ==
    /\ [][ReceiverState' # ReceiverState =>
              <<ReceiverState, ReceiverState'>> \in ReceiverTransitions]_vars
    /\ [][received' # received =>
              /\ ReceiverState \in {"Subscribed", "IdleWait"}
              /\ consumer = "open"
              /\ ReceiverState' = "Draining"]_vars
    /\ [][ReceiverState = "Closed" =>
              /\ ReceiverState' = "Closed"
              /\ received' = received
              /\ position' = position
              /\ Lines("received")' = Lines("received")
              /\ pc' \notin ConsumePcs]_vars
    /\ [](pc \in {"m_end", "done"} /\ consumer = "open" =>
              ReceiverState = "Closed")

\* The Receiver is Closed after having drained a record and waited idle,
\* with the run over
C12_Witness ==
    /\ Finished
    /\ ReceiverState = "Closed"
    /\ loopEnd = "timeout"
    /\ Len(received) >= 2

----------------------------------------------------------------------------
(* C13 *)

\* C13: the producer never holds more than one record that has not
\* completed, and it holds one exactly while this run's record is pending.
C13_AtMostOneInFlight ==
    /\ Len(accumulator) <= 1
    /\ (Len(accumulator) = 1) <=> (delivery = "pending")

\* The record has been submitted and is not yet acknowledged
C13_Witness ==
    /\ Len(accumulator) = 1
    /\ delivery = "pending"
    /\ pc = "p_flush"

----------------------------------------------------------------------------
(* C14 *)

\* C14 as stated, for max_messages = 3: the Receiver's sequence never has
\* more than 3 elements.
C14_AtMostThreeMessages == Len(received) <= 3

----------------------------------------------------------------------------
(* C15 *)

\* C15 as stated: the Receiver is never in a waiting step other than the
\* pull itself.
C15_NoPerMessageDelay == pc # "c_sleep"

----------------------------------------------------------------------------
(* C16 *)

\* C16: once an exception has left produce_messages the main thread is in
\* the handler or past it, no consumer exists, nothing was received or
\* printed as received, and once the handler has run exactly one error
\* line is printed, "An error occurred" for a KafkaError and "An
\* unexpected error occurred" otherwise; no run prints two error lines.
C16_FailedPublishSkipsReceiver ==
    /\ raisedIn = "produce_messages" =>
           /\ pc \in {"handler", "m_end", "done"}
           /\ consumer = "absent"
           /\ received = <<>>
           /\ position = 0
           /\ Lines("received") = 0
           /\ Lines("sent") = 0
           /\ pc \in {"m_end", "done"} =>
                  /\ Lines("error") + Lines("unexpected") = 1
                  /\ output = << [kind |-> IF IsKafkaError(exc)
                                             THEN "error" ELSE "unexpected",
                                  text |-> exc] >>
    /\ Lines("error") + Lines("unexpected") <= 1

\* A finished run whose publish failed in send
C16_Witness ==
    /\ Finished
    /\ raisedIn = "produce_messages"
    /\ exc = "KafkaTimeoutError"
    /\ producer = "open"

----------------------------------------------------------------------------
(* C17 *)

\* C17: when no failure has happened and nobody else has published, the
\* Receiver of the n-th consecutive run on an initially empty topic has
\* received, once the run is over, the n records published by runs 1..n,
\* each with payload b'Hello, Kafka!', and printed each of them.
C17_NthRunReceivesN ==
    (Finished /\ NoFailure /\ external = 0) =>
        /\ Len(received) = run
        /\ \A i \in DOMAIN received :
               received[i] = [offset |-> i, value |-> HelloKafka]
        /\ Lines("received") = run
        /\ Len(priorLog) = run - 1

\* The third run is over and its Receiver received three messages
C17_Witness ==
    /\ Finished
    /\ NoFailure
    /\ external = 0
    /\ run = 3
    /\ Len(received) = 3

----------------------------------------------------------------------------
(* C18 *)

\* The texts of the "Received message" lines, in order
RECURSIVE ReceivedTexts(_)
ReceivedTexts(out) ==
    IF out = <<>> THEN <<>>
    ELSE (IF Head(out).kind = "received" THEN <<Head(out).text>> ELSE <<>>)
             \o ReceivedTexts(Tail(out))

\* The decoded payloads of the first n records of recs, in order
RECURSIVE DecodedTexts(_, _)
DecodedTexts(recs, n) ==
    IF n = 0 THEN <<>>
    ELSE Append(DecodedTexts(recs, n - 1), Decode(recs[n].value).text)

\* C18: the records handed out are the log's records in offset order, none
\* skipped and none twice; a record is pulled only when every record
\* before it has been printed and its processing step has finished; the
\* printed lines are those records in that order, each once; the loop ends
\* only by idle timeout or by an exception, and unless the broker stalls
\* the idle timeout ends it only when no unread record is in the log.
C18_OneAtATimeInLogOrder ==
    /\ [](\A i \in DOMAIN received :
              received[i] = [offset |-> i, value |-> log[i]])
    /\ [](position = Len(received))
    /\ [](LET printed == Lines("received")
          IN  /\ printed = IF pc \in {"c_body", "handler", "m_end", "done"}
                                /\ received # <<>>
                                /\ ~Decode(received[Len(received)].value).ok
                             THEN Len(received) - 1
                             ELSE IF pc = "c_body" THEN Len(received) - 1
                             ELSE Len(received)
              /\ ReceivedTexts(output) = DecodedTexts(received, printed))
    /\ [][received' # received =>
              /\ pc = "c_next"
              /\ Lines("received") = Len(received)
              /\ received' = Append(received,
                                 [offset |-> Len(received) + 1,
                                  value |-> log[Len(received) + 1]])]_vars
    /\ [][(pc \in LoopPcs /\ pc' \notin LoopPcs) =>
              \/ loopEnd' = "timeout" /\ pc = "c_next"
              \/ loopEnd' = "error" /\ pc' = "handler"]_vars
    /\ [][(loopEnd' = "timeout" /\ loopEnd = "none"
               /\ "Stall" \notin faults') => position = Len(log)]_vars

\* Two records have been pulled, printed and processed, and a third one is
\* available for the next pull
C18_Witness ==
    /\ pc = "c_next"
    /\ Len(received) = 2
    /\ Lines("received") = 2
    /\ position < Len(log)

====
